---- MODULE Spec2Model ----
(***************************************************************************)
(* FileMappedVector<T> of src/main.rs: an append-only vector that lives in *)
(* a file mapped MAP_SHARED into memory.  The file is modelled as a header *)
(* (magic, size) followed by element slots; slots are numbered from 0 and  *)
(* slot i of a sequence is stored at position i + 1.                       *)
(*                                                                         *)
(* `tail` holds what sits in the page cache of the last file page beyond   *)
(* the end of the file: the mapping can read and write it, but it is never *)
(* written to the file and the kernel may zero it at any writeback.        *)
(***************************************************************************)
EXTENDS Integers, Sequences, FiniteSets, TLC

\* ------------------------------------------------------------ constants
MAGIC == <<70, 77, 65, 80, 86, 69, 67, 0>>        \* b"FMAPVEC\0"
MmapPages == 268435456                            \* MMAP_SIZE = 1 << 40 bytes, in pages of 4096
HeaderSize == 4096                                \* size_of::<FMVHeader>()
ElemSize == 8                                     \* size_of::<u64>()
InitSlots == 32
PageSize == 4096

ErrNotWritable == "file is not readable and writable"
ErrMmap == "mmap failed"

\* ------------------------------------------------------------ bounds
MaxPush == 65          \* header.size never exceeds this
FreeSlots == 1         \* slots 0..FreeSlots-1 may also receive AltValue instead of the driver's counter
AltValue == 1000
MaxBase == 1           \* addresses mmap may return: 1..MaxBase (in pages)
MaxRace == 4           \* pushes two instances on one file complete between them

VARIABLES
  file,        \* the backing file: len, readonly, magic, size, data, tail
  st,          \* "none" | "open" | "closed" | "err" | "panicked" | "killed"
  capacity,    \* FileMappedVector.capacity
  header,      \* FileMappedVector.header (address of the mapping)
  data,        \* FileMappedVector.data
  fromEmpty,   \* the instance was created by new() from an empty file
  pushed,      \* values whose push() returned, on an instance created from an empty file
  growths,     \* growth events of the current instance
  snap,        \* len() and the indexed reads just before the last drop
  last,        \* the last operation and its outcome
  inst,        \* two instances opened on the same file: st, capacity, pc, r of each
  done         \* pushes completed on the file of the two instances

vars == <<file, st, capacity, header, data, fromEmpty, pushed, growths, snap, last, inst, done>>

\* the state of the single instance, and of the two instances that share a file
solo == <<st, capacity, header, data, fromEmpty, pushed, growths, snap, last>>
race == <<inst, done>>

\* ------------------------------------------------------------ helpers
Max(a, b) == IF a > b THEN a ELSE b

BadMagic == <<0, 0, 0, 0, 0, 0, 0, 0>>
NoTail == <<>>
NoSnap == [len |-> -1, cap |-> -1, vals |-> <<>>]

\* element slots that lie wholly inside a file of `len` bytes
SlotsIn(len) == IF len < HeaderSize THEN 0 ELSE (len - HeaderSize) \div ElemSize

\* byte offset of a slot in the mapping
Off(slot) == HeaderSize + slot * ElemSize

\* end of the last page that holds file bytes
PageEnd(len) == ((len + PageSize - 1) \div PageSize) * PageSize

\* an access to a page wholly beyond the end of the file raises SIGBUS
SigBus(f, slot) ==
  \/ Off(slot) >= PageEnd(f.len)
  \/ (Off(slot) + ElemSize - 1) \div PageSize >= MmapPages

\* *data.add(slot)
MemRead(f, slot) ==
  IF slot < Len(f.data) THEN f.data[slot + 1]
  ELSE IF slot \in DOMAIN f.tail THEN f.tail[slot]
  ELSE 0

\* data.add(slot).write(value)
MemWrite(f, slot, value) ==
  IF slot < Len(f.data)
  THEN [f EXCEPT !.data[slot + 1] = value]
  ELSE [f EXCEPT !.tail = [j \in (DOMAIN f.tail) \cup {slot} |->
                             IF j = slot THEN value ELSE f.tail[j]]]

\* fallocate(fd, 0, offset, length): ok is whether the filesystem has room,
\* keep is whether bytes cached beyond the old end of file survive the extension
Fallocate(f, offset, length, ok, keep) ==
  IF length <= 0 \/ ~ok
  THEN [f |-> f, ret |-> -1]
  ELSE LET newLen == Max(f.len, offset + length)
           n == SlotsIn(newLen)
       IN [f |-> [f EXCEPT
                    !.len = newLen,
                    !.data = [j \in 1..n |->
                                IF j <= Len(f.data) THEN f.data[j]
                                ELSE IF keep /\ (j - 1) \in DOMAIN f.tail THEN f.tail[j - 1]
                                ELSE 0],
                    !.tail = [j \in {k \in DOMAIN f.tail : k >= n} |-> f.tail[j]]],
           ret |-> 0]

\* new() without the read-only test
ReadonlyCheckSkipped(f) == FALSE

\* file.metadata().unwrap().permissions().readonly()
ReadonlyCheck(f) == f.readonly

\* an initial data region of half the size
InitCapHalf == ElemSize * 16

\* size_of::<T>() * 32
InitCap == ElemSize * InitSlots

\* every file taken for a new one
IsNewFileAlways(fsize) == TRUE

\* fsize == 0
IsNewFile(fsize) == fsize = 0

\* file.set_len(initial_file_size) and the header written at offset 0
InitFile(f) ==
  [f EXCEPT !.len = HeaderSize + InitCap,
            !.magic = MAGIC,
            !.size = 0,
            !.reserved = 0,
            !.data = [j \in 1..SlotsIn(HeaderSize + InitCap) |-> 0],
            !.tail = NoTail]

\* growth one push late
NeedsGrowthLate(size, cap) == size > cap

\* header.size >= self.capacity
NeedsGrowth(size, cap) == size >= cap

\* growth by the initial capacity instead of doubling
NewCapacityLinear(cap) == cap + 32

\* a growth that shrinks
NewCapacityShrink(cap) == cap \div 2

\* self.capacity * 2
NewCapacity(cap) == cap * 2

\* msync(MS_SYNC), munmap, sync_all: the file keeps its bytes, the cached
\* bytes beyond its end are gone
DropFile(f) == [f EXCEPT !.tail = NoTail]

\* the bound test off by one
IndexResOffByOne(f, cap, index) ==
  IF ~(index <= cap) THEN <<"panic", 0>>
  ELSE IF SigBus(f, index) THEN <<"killed", 0>>
  ELSE <<"Ok", MemRead(f, index)>>

\* vec[index] as the caller sees it
IndexRes(f, cap, index) ==
  IF ~(index < cap) THEN <<"panic", 0>>
  ELSE IF SigBus(f, index) THEN <<"killed", 0>>
  ELSE <<"Ok", MemRead(f, index)>>

\* no instance of the pair is open
Insts == {1, 2}
NoInst == [i \in Insts |-> [st |-> "none", capacity |-> 0, pc |-> "idle", r |-> 0]]

Op(op, res, val, fa, grew, mm, slot) ==
  [op |-> op, res |-> res, val |-> val, fa |-> fa, grew |-> grew, mmap |-> mm, slot |-> slot,
   calls |-> <<>>]

\* a drop() that stops at the first call that fails
DropCallsStopAtFailure(msyncOk, munmapOk, syncOk) ==
  IF ~msyncOk THEN << <<"msync", FALSE>> >>
  ELSE IF ~munmapOk THEN << <<"msync", TRUE>>, <<"munmap", FALSE>> >>
  ELSE << <<"msync", TRUE>>, <<"munmap", TRUE>>, <<"sync_all", syncOk>> >>

\* the calls drop() makes, in order, each with its outcome: the results of
\* msync and munmap are not looked at
DropCalls(msyncOk, munmapOk, syncOk) ==
  << <<"msync", msyncOk>>, <<"munmap", munmapOk>>, <<"sync_all", syncOk>> >>

\* a call was made with the given outcome
Called(calls, name, ok) == \E k \in 1..Len(calls) : calls[k] = <<name, ok>>

\* ------------------------------------------------------------ initial state
\* files handed to new(): an empty one, and existing ones
ExistingLens == {HeaderSize, HeaderSize + InitCap, 100, HeaderSize + 12}
ExistingSizes == {0, 3}

\* an existing file; `reserved` stands for bytes 16..4095 of the header, which
\* a file written by a later version may use
ExistingFile(len, ro, magic, size) ==
  [len |-> len, readonly |-> ro, magic |-> magic, size |-> size,
   reserved |-> IF size > 0 THEN 1 ELSE 0,
   data |-> [j \in 1..SlotsIn(len) |-> IF j <= size THEN j - 1 ELSE 0],
   tail |-> NoTail]

EmptyFile(ro) ==
  [len |-> 0, readonly |-> ro, magic |-> BadMagic, size |-> 0, reserved |-> 0,
   data |-> <<>>, tail |-> NoTail]

InitFiles ==
  {EmptyFile(ro) : ro \in BOOLEAN} \cup
  {ExistingFile(len, ro, magic, size) :
     len \in ExistingLens, ro \in BOOLEAN, magic \in {MAGIC, BadMagic}, size \in ExistingSizes}

Init ==
  /\ file \in InitFiles
  /\ st = "none"
  /\ capacity = 0
  /\ header = 0
  /\ data = 0
  /\ fromEmpty = FALSE
  /\ pushed = <<>>
  /\ growths = 0
  /\ snap = NoSnap
  /\ last = Op("none", "Ok", 0, 0, FALSE, FALSE, 0)
  /\ inst = NoInst
  /\ done = 0

\* ------------------------------------------------------------ operations
\* FileMappedVector::new(file)
New ==
  /\ st # "open"
  /\ UNCHANGED race
  /\ pushed' = <<>>
  /\ growths' = 0
  /\ UNCHANGED snap
  /\ IF ReadonlyCheck(file)
     THEN /\ st' = "err"
          /\ last' = Op("new", ErrNotWritable, 0, 0, FALSE, FALSE, 0)
          /\ UNCHANGED <<file, capacity, header, data, fromEmpty>>
     ELSE \E mapped \in BOOLEAN, base \in 1..MaxBase :
            LET wasEmpty == IsNewFile(file.len)
                f1 == IF wasEmpty THEN InitFile(file) ELSE file
                fsize == f1.len
            IN /\ file' = f1
               /\ IF fsize < HeaderSize \/ (fsize - HeaderSize) % ElemSize # 0
                  THEN /\ st' = "panicked"
                       /\ last' = Op("new", "panic", 0, 0, FALSE, FALSE, 0)
                       /\ UNCHANGED <<capacity, header, data, fromEmpty>>
                  ELSE IF ~mapped
                  THEN /\ st' = "err"
                       /\ last' = Op("new", ErrMmap, 0, 0, FALSE, TRUE, 0)
                       /\ UNCHANGED <<capacity, header, data, fromEmpty>>
                  ELSE /\ st' = "open"
                       /\ capacity' = (fsize - HeaderSize) \div ElemSize
                       /\ header' = base * PageSize
                       /\ data' = base * PageSize + HeaderSize
                       /\ fromEmpty' = wasEmpty
                       /\ last' = Op("new", "Ok", 0, 0, FALSE, TRUE, 0)

\* the instance is gone: its fields hold nothing
Gone ==
  /\ capacity' = 0
  /\ header' = 0
  /\ data' = 0
  /\ fromEmpty' = FALSE
  /\ pushed' = <<>>
  /\ growths' = 0

\* the values the caller pushes: the driver's `vec.push(i)`, whose counter i
\* runs from the vector's length, or another value
PushValues == {file.size} \cup (IF file.size < FreeSlots THEN {AltValue} ELSE {})

\* header.size counted twice
StoreSizeTwice(loaded) == loaded + 2

\* header.size += 1
StoreSize(loaded) == loaded + 1

\* FileMappedVector::push(value)
Push ==
  /\ st = "open"
  /\ UNCHANGED race
  /\ file.size < MaxPush
  /\ snap' = NoSnap
  /\ \E value \in PushValues, ok \in BOOLEAN, keep \in BOOLEAN :
       IF file.magic # MAGIC
       THEN /\ st' = "panicked"
            /\ file' = DropFile(file)
            /\ last' = Op("push", "panic", 0, 0, FALSE, FALSE, 0)
            /\ Gone
       ELSE LET grow == NeedsGrowth(file.size, capacity)
                new_cap == NewCapacity(capacity)
                old_size == ElemSize * capacity + HeaderSize
                size_diff == ElemSize * (new_cap - capacity)
                fr == IF grow THEN Fallocate(file, old_size, size_diff, ok, keep)
                      ELSE [f |-> file, ret |-> 0]
                slot == file.size
            IN IF SigBus(fr.f, slot)
               THEN /\ st' = "killed"
                    /\ file' = fr.f
                    /\ last' = Op("push", "killed", 0, fr.ret, grow, FALSE, slot)
                    /\ Gone
               ELSE /\ st' = "open"
                    /\ capacity' = IF grow THEN new_cap ELSE capacity
                    /\ growths' = IF grow THEN growths + 1 ELSE growths
                    /\ file' = [MemWrite(fr.f, slot, value) EXCEPT !.size = StoreSize(@)]
                    /\ pushed' = IF fromEmpty THEN Append(pushed, value) ELSE pushed
                    /\ last' = Op("push", "Ok", 0, fr.ret, grow, FALSE, slot)
                    /\ UNCHANGED <<header, data, fromEmpty>>

\* FileMappedVector::len()
LenOp ==
  /\ st = "open"
  /\ last' = Op("len", "Ok", file.size, 0, FALSE, FALSE, 0)
  /\ UNCHANGED <<file, st, capacity, header, data, fromEmpty, pushed, growths, snap>>
  /\ UNCHANGED race

\* the indexes the caller reads
IndexArgs == {0, file.size - 1, capacity - 1, capacity} \cap Nat

\* Index::index(index)
IndexOp ==
  /\ st = "open"
  /\ UNCHANGED race
  /\ \E index \in IndexArgs :
       LET r == IndexRes(file, capacity, index)
       IN /\ last' = Op("index", r[1], r[2], 0, FALSE, FALSE, index)
          /\ st' = IF r[1] = "Ok" THEN "open" ELSE IF r[1] = "panic" THEN "panicked" ELSE "killed"
          /\ file' = IF r[1] = "panic" THEN DropFile(file) ELSE file
          /\ snap' = IF r[1] = "Ok" THEN snap ELSE NoSnap
          /\ IF r[1] = "Ok"
             THEN UNCHANGED <<capacity, header, data, fromEmpty, pushed, growths>>
             ELSE Gone

\* Drop::drop(): the mapping is released whatever msync returned, a sync_all
\* that fails panics in unwrap()
Drop ==
  /\ st = "open"
  /\ UNCHANGED race
  /\ \E msyncOk \in BOOLEAN, munmapOk \in BOOLEAN, syncOk \in BOOLEAN :
       LET calls == DropCalls(msyncOk, munmapOk, syncOk)
           panics == Called(calls, "sync_all", FALSE)
       IN /\ st' = IF panics THEN "panicked" ELSE "closed"
          /\ file' = DropFile(file)
          /\ last' = [Op("drop", IF panics THEN "panic" ELSE "Ok", 0, 0, FALSE, FALSE, 0)
                        EXCEPT !.calls = calls]
  /\ snap' = [len |-> file.size, cap |-> capacity,
              vals |-> [j \in 1..file.size |-> IndexRes(file, capacity, j - 1)]]
  /\ Gone

\* the kernel writes the last page of the shared mapping back and zeroes
\* what the page holds beyond the end of the file
Writeback ==
  /\ file.tail # NoTail
  /\ file' = [file EXCEPT !.tail = NoTail]
  /\ last' = Op("writeback", "Ok", 0, 0, FALSE, FALSE, 0)
  /\ UNCHANGED <<st, capacity, header, data, fromEmpty, pushed, growths, snap>>
  /\ UNCHANGED race

Next == New \/ Push \/ LenOp \/ IndexOp \/ Drop \/ Writeback

Spec == Init /\ [][Next]_vars

\* ------------------------------------------------------------ failing OS calls in new()
\* The calls of new() whose result is unwrapped: metadata (lines 37, 45, 69),
\* set_len (47), seek (57, 65) and write_all (58).  A failure of one of them
\* panics at the unwrap; what the calls before it did to the file stays.
ErrUnwrap == "unwrap on Err"

\* file.set_len(initial_file_size): the file extended with zero bytes
SetLenFile(f) ==
  [f EXCEPT !.len = HeaderSize + InitCap,
            !.magic = BadMagic,
            !.size = 0,
            !.reserved = 0,
            !.data = [j \in 1..SlotsIn(HeaderSize + InitCap) |-> 0],
            !.tail = NoTail]

\* the file a failing call leaves; write_all fails before or after the magic
FaultFiles(f, call) ==
  CASE call \in {"metadata37", "metadata45", "set_len"} -> {f}
    [] call = "seek57" -> {SetLenFile(f)}
    [] call = "write_all" -> {SetLenFile(f), InitFile(f)}
    [] call \in {"seek65", "metadata69"} -> {InitFile(f)}

\* the calls new() reaches on file f
FaultCalls(f) ==
  {"metadata37"} \cup
  (IF ReadonlyCheck(f) THEN {}
   ELSE {"metadata45"} \cup
        (IF IsNewFile(f.len)
         THEN {"set_len", "seek57", "write_all", "seek65", "metadata69"}
         ELSE {"metadata69"}))

\* FileMappedVector::new(file) when one of its unwrapped OS calls fails
NewFault ==
  /\ st # "open"
  /\ UNCHANGED race
  /\ UNCHANGED snap
  /\ \E call \in FaultCalls(file) :
       /\ file' \in (IF call = "metadata69" /\ ~IsNewFile(file.len)
                     THEN {file} ELSE FaultFiles(file, call))
       /\ last' = [Op("new", ErrUnwrap, 0, 0, FALSE, FALSE, 0) EXCEPT !.calls = << <<call, FALSE>> >>]
  /\ st' = "panicked"
  /\ Gone

NextOs == New \/ NewFault \/ Drop

SpecOs == Init /\ [][NextOs]_vars

\* ------------------------------------------------------------ two instances
\* Two instances opened on one file, in two threads or processes.  new() is
\* taken as one step; push() is three: the magic test, the growth and the load
\* of header.size (lines 120-154), the store of the value (line 157), and the
\* store of header.size (line 160).  Neither is synchronised, so each later
\* step uses the header.size it loaded before or loads it again.

\* a file that holds the values 0 .. n-1 of n earlier pushes
FilledFile(n) ==
  [InitFile(EmptyFile(FALSE)) EXCEPT
     !.size = n,
     !.data = [j \in 1..InitSlots |-> IF j <= n THEN j - 1 ELSE 0]]

StartSizes == {0, InitSlots - 1}

\* the size the file of the two instances started with
StartOf(d) == CHOOSE n \in StartSizes : n <= d /\ \A m \in StartSizes : m <= d => m <= n

InitTwo ==
  /\ \E n \in StartSizes : file = FilledFile(n) /\ done = n
  /\ inst = NoInst
  /\ st = "none"
  /\ capacity = 0
  /\ header = 0
  /\ data = 0
  /\ fromEmpty = FALSE
  /\ pushed = <<>>
  /\ growths = 0
  /\ snap = NoSnap
  /\ last = Op("none", "Ok", 0, 0, FALSE, FALSE, 0)

\* a load of header.size that returns one more than is stored
LoadSizeAhead(f) == f.size + 1

\* header.size as push() loads it
LoadSize(f) == f.size

\* FileMappedVector::new(file) by instance i
TwoNew ==
  \E i \in Insts :
    /\ inst[i].st = "none"
    /\ inst' = [inst EXCEPT ![i] = [st |-> "open", capacity |-> SlotsIn(file.len),
                                    pc |-> "idle", r |-> 0]]
    /\ UNCHANGED <<file, done, solo>>

\* push() by instance i up to the end of the growth branch
TwoPushBegin ==
  \E i \in Insts, ok \in BOOLEAN, keep \in BOOLEAN :
    /\ inst[i].st = "open"
    /\ inst[i].pc = "idle"
    /\ done < StartOf(done) + MaxRace
    /\ file.magic = MAGIC
    /\ LET cap == inst[i].capacity
           grow == NeedsGrowth(file.size, cap)
           new_cap == NewCapacity(cap)
           old_size == ElemSize * cap + HeaderSize
           size_diff == ElemSize * (new_cap - cap)
           fr == IF grow THEN Fallocate(file, old_size, size_diff, ok, keep)
                 ELSE [f |-> file, ret |-> 0]
       IN /\ file' = fr.f
          /\ inst' = [inst EXCEPT ![i].capacity = IF grow THEN new_cap ELSE cap,
                                  ![i].pc = "write",
                                  ![i].r = LoadSize(file)]
    /\ UNCHANGED <<done, solo>>

\* self.data.add(header.size).write(value) by instance i
TwoPushWrite ==
  \E i \in Insts :
    /\ inst[i].pc = "write"
    /\ \E slot \in {inst[i].r, LoadSize(file)} :
         IF SigBus(file, slot)
         THEN /\ inst' = [inst EXCEPT ![i] = [st |-> "killed", capacity |-> 0,
                                                pc |-> "idle", r |-> 0]]
              /\ UNCHANGED file
         ELSE /\ file' = MemWrite(file, slot, slot)
              /\ inst' = [inst EXCEPT ![i].pc = "store", ![i].r = slot]
    /\ UNCHANGED <<done, solo>>

\* header.size += 1 by instance i
TwoPushStore ==
  \E i \in Insts :
    /\ inst[i].pc = "store"
    /\ \E loaded \in {inst[i].r, LoadSize(file)} :
         file' = [file EXCEPT !.size = StoreSize(loaded)]
    /\ inst' = [inst EXCEPT ![i].pc = "idle", ![i].r = 0]
    /\ done' = done + 1
    /\ UNCHANGED solo

NextTwo == TwoNew \/ TwoPushBegin \/ TwoPushWrite \/ TwoPushStore

SpecTwo == InitTwo /\ [][NextTwo]_vars

\* ------------------------------------------------------------ properties

\* the values an indexed read returns for every index below `n`
Reads(f, cap, n) == [j \in 1..n |-> IndexRes(f, cap, j - 1)]

\* C1: on an instance created from an empty file, after N pushes len() is N
\* and vec[i] is the i-th pushed value for every i in [0, N).
C1_PushThenRead ==
  (st = "open" /\ fromEmpty) =>
    /\ file.size = Len(pushed)
    /\ \A i \in 0..(Len(pushed) - 1) :
         IndexRes(file, capacity, i) = <<"Ok", pushed[i + 1]>>

\* C2: an instance reopened after drop, before any further push, has the
\* len() and the value at every index below len() that the dropped instance had.
C2_RoundTrip ==
  (st = "open" /\ snap # NoSnap) =>
    /\ file.size = snap.len
    /\ Reads(file, capacity, snap.len) = snap.vals

\* the errors the specification names and the code never returns
ErrCorruptHeader == "CorruptHeaderError"
ErrAllocation == "AllocationError"

\* C3: new() on a non-empty file whose magic is not MAGIC returns a
\* CorruptHeaderError, constructs no instance and leaves the file as it was.
C3_CorruptHeaderRejected ==
  [][(last'.op = "new" /\ file.len > 0 /\ ~file.readonly /\ file.magic # MAGIC) =>
       (st' # "open" /\ last'.res = ErrCorruptHeader /\ file' = file)]_vars

\* C4: a push whose fallocate fails returns an AllocationError and leaves
\* capacity, length and every element slot as they were.
C4_AllocationFailureSurfaced ==
  [][(last'.op = "push" /\ last'.grew /\ last'.fa # 0) =>
       /\ last'.res = ErrAllocation
       /\ capacity' = capacity
       /\ file'.size = file.size
       /\ file'.data = file.data
       /\ file'.tail = file.tail]_vars

\* C5: length <= capacity in every state of an open instance.
C5_LengthWithinCapacity ==
  st = "open" => file.size <= capacity

\* C6: while an instance is open the file is 4096 + capacity * sizeof(T)
\* bytes long, and capacity does not exceed the slots the file holds.
C6_FileLengthMatchesCapacity ==
  st = "open" =>
    /\ file.len = 4096 + capacity * ElemSize
    /\ capacity <= SlotsIn(file.len)

C8_GrowthKeepsValues ==
  [][(last'.op = "push" /\ last'.grew /\ last'.res = "Ok") =>
       /\ header' = header
       /\ data' = data
       /\ data' = header' + 4096
       /\ \A i \in 0..(file.size - 1) : MemRead(file', i) = MemRead(file, i)]_vars

\* C9: an instance created from an empty file starts with capacity 32 and a
\* data region of 32 * sizeof(T) bytes; pushes 1..32 do not grow it; the 33rd
\* push grows it once, 32 -> 64, and then stores its value in slot 32.
C9_FirstGrowthAt33 ==
  (st = "open" /\ fromEmpty) =>
    /\ (last.op = "new" => capacity = 32 /\ file.len = 4096 + 32 * ElemSize)
    /\ (Len(pushed) <= 32 => capacity = 32 /\ growths = 0)
    /\ (Len(pushed) = 33 => capacity = 64 /\ growths = 1)
    /\ (Len(pushed) = 33 /\ last.op = "push" =>
          last.grew /\ last.slot = 32 /\ last.slot < capacity
          /\ MemRead(file, 32) = pushed[33])

C9_Witness ==
  /\ st = "open"
  /\ fromEmpty
  /\ Len(pushed) = 33
  /\ last.op = "push"
  /\ last.grew
  /\ capacity = 64

\* C10: on an instance created from an empty file capacity is 32 * 2^k,
\* k the number of growth events; capacity changes only in a push that
\* grows, and then to exactly twice its value.
C10_CapacityDoubles ==
  /\ []((st = "open" /\ fromEmpty) => capacity = 32 * (2 ^ growths))
  /\ [][(st = "open" /\ st' = "open" /\ capacity' # capacity) =>
          (capacity' = 2 * capacity /\ last'.op = "push" /\ last'.grew
           /\ growths' = growths + 1)]_vars

C10_Witness ==
  /\ st = "open"
  /\ fromEmpty
  /\ growths = 2
  /\ capacity = 128

\* C11: no operation on an open instance leaves capacity smaller than it was.
C11_CapacityMonotonic ==
  [][(st = "open" /\ st' = "open") => capacity' >= capacity]_vars

C11_Witness ==
  /\ st = "open"
  /\ last.op = "push"
  /\ last.grew
  /\ capacity > 32

C16_ReopenedCapacity ==
  (st = "open" /\ snap # NoSnap) => capacity = snap.cap

\* C18: every push writes its value at a slot below the capacity in effect
\* after its growth step.
C18_PushWritesWithinCapacity ==
  [][(last'.op = "push" /\ last'.res \in {"Ok", "killed"}) =>
       last'.slot < (IF last'.grew THEN NewCapacity(capacity) ELSE capacity)]_vars

\* the bytes of the file: its length, header and data region
FileBytes(f) == <<f.len, f.magic, f.size, f.reserved, f.data>>

\* C19: on an existing non-empty file new(), len(), vec[i] and drop leave the
\* file's length and every byte of its header and data region unchanged.
C19_AttachIsReadOnly ==
  [][(file.len > 0 /\ last'.op \in {"new", "len", "index", "drop"}) =>
       FileBytes(file') = FileBytes(file)]_vars

C19_Witness ==
  /\ st = "closed"
  /\ last.op = "drop"
  /\ snap.len = 3
  /\ file.size = 3
  /\ file.len = HeaderSize + InitCap

\* C20: when mmap fails in new() on an empty writable file, new() returns the
\* error and no instance, the file is 4096 + 32 * sizeof(T) bytes long with a
\* valid header of length 0, and a later new() that succeeds attaches to it
\* with length 0 and capacity 32.
C20_MmapFailureLeavesInitializedFile ==
  /\ [][(last'.op = "new" /\ last'.res = ErrMmap /\ file.len = 0) =>
          /\ st' # "open"
          /\ file'.len = 4096 + 32 * ElemSize
          /\ file'.magic = MAGIC
          /\ file'.size = 0]_vars
  /\ [][(last.op = "new" /\ last.res = ErrMmap /\ file = InitFile(EmptyFile(FALSE))
         /\ last'.op = "new" /\ last'.res = "Ok") =>
          /\ st' = "open"
          /\ file'.size = 0
          /\ capacity' = 32
          /\ file' = file]_vars

C20_Witness ==
  /\ st = "err"
  /\ last.op = "new"
  /\ last.res = ErrMmap
  /\ file = InitFile(EmptyFile(FALSE))

\* C15: drop() calls msync, munmap and sync_all in this order, and makes each
\* of the three calls whether or not an earlier one failed.
C15_DropOrder ==
  [][(last'.op = "drop") =>
       /\ Len(last'.calls) = 3
       /\ last'.calls[1][1] = "msync"
       /\ last'.calls[2][1] = "munmap"
       /\ last'.calls[3][1] = "sync_all"]_vars

C15_Witness ==
  /\ last.op = "drop"
  /\ Called(last.calls, "msync", FALSE)
  /\ Called(last.calls, "munmap", FALSE)
  /\ Called(last.calls, "sync_all", TRUE)
  /\ st = "closed"

\* C14: once a file has its header, no step changes the magic or the reserved
\* bytes; header.size changes only in a push that stores its value, by
\* exactly 1; a push that ends in its growth step, len() and vec[i] leave it.
C14_OnlySizeChanges ==
  [][(file.len > 0) =>
       /\ file'.magic = file.magic
       /\ file'.reserved = file.reserved
       /\ (file'.size # file.size => last'.op = "push" /\ last'.res = "Ok")
       /\ (last'.op = "push" /\ last'.res = "Ok" => file'.size = file.size + 1)
       /\ (last'.op = "push" /\ last'.res # "Ok" => file'.size = file.size)]_vars

C14_Witness ==
  /\ st = "open"
  /\ last.op = "push"
  /\ last.res = "Ok"
  /\ last.grew
  /\ file.reserved = 1
  /\ file.size = 33

\* C17: with two instances on one file and their pushes interleaved, a state
\* is reached in which an open instance's capacity differs from the slots of
\* the file, and header.size is smaller than the number of completed pushes.
\* Updates of header.size are lost and never invented, and neither happens
\* while one instance alone is open.
C17_RaceLosesUpdates ==
  /\ file.size <= done
  /\ ((\E i \in Insts : inst[i].st = "none") =>
        /\ file.size = done
        /\ \A i \in Insts : inst[i].st = "open" => inst[i].capacity >= SlotsIn(file.len))

C17_Witness ==
  /\ \A i \in Insts : inst[i].pc = "idle"
  /\ \E i \in Insts : inst[i].st = "open" /\ inst[i].capacity # SlotsIn(file.len)
  /\ \E i \in Insts : inst[i].st = "open" /\ inst[i].capacity = SlotsIn(file.len)
  /\ file.size < done

\* C12: every failure of an OS call during new() is returned to the caller as
\* an error value, and none panics.
C12_OsFailuresReturned ==
  [][last'.op = "new" => last'.res # ErrUnwrap]_vars

====
